---- MODULE Spec2Model ----
\* A model of steamapi/app.py: the SteamApp aggregator and its SteamAchievement
\* sub-entities, read through the TTL cache wrapper with TTL = INFINITE.
EXTENDS Integers, Sequences, FiniteSets, TLC

VARIABLES apps, achs, last
\* apps : the SteamApp instances (a sequence of objects, each with its own _cache)
\* achs : the SteamAchievement objects, those handed out in an achievements
\*        list and those a caller constructed
\* last : what the most recent operation did: the calls it issued, with the
\*        responses it got, and how it ended (and, for a constructor, its
\*        arguments)
vars == <<apps, achs, last>>

\* --------------------------------------------------------------------------
\* Input domains
\* --------------------------------------------------------------------------
MaxAch == 2
MaxGlobal == 2
MaxUnlocks == 2
MaxPlayer == 2

None == "None"
AppIds == {100}
UserIds == {"u1"}
GameNames == {"Portal"}

SeqUpTo(S, n) == UNION {[1..k -> S] : k \in 0..n}

\* A remote call that raises instead of returning a response.
CallFailed == [failed |-> TRUE]
Failed(r) == "failed" \in DOMAIN r

\* "does this field exist" on a Response: containment is key membership.
Has(resp, field) == field \in DOMAIN resp

\* GetSchemaForGame responses: game.gameName, game.availableGameStats and the
\* achievements list inside it are optional.
SchemaDefs ==
    {[name |-> "A", displayName |-> "First", hidden |-> 0],
     [name |-> "playerstats", displayName |-> "Second", hidden |-> 1]}
GameStats ==
    {[stats |-> <<>>]} \cup
    {[stats |-> <<>>, achievements |-> l] : l \in SeqUpTo(SchemaDefs, MaxAch)}
Games ==
    LET named(g) == {g} \cup {g @@ [gameName |-> n] : n \in GameNames}
    IN  UNION {named(g) : g \in {<<>>} \cup {[availableGameStats |-> s] : s \in GameStats}}
SchemaResponses == {[game |-> g] : g \in Games}

\* GetGlobalAchievementPercentagesForApp responses.
\* "B" names no achievement of any schema here: its entries are orphans.
GlobalEntries ==
    {[name |-> "A", percent |-> 10], [name |-> "B", percent |-> 20]}
GlobalResponses ==
    {[achievementpercentages |-> p] :
        p \in {<<>>} \cup {[achievements |-> l] : l \in SeqUpTo(GlobalEntries, MaxGlobal)}}

\* GetUserStatsForGame responses.
UserStatEntries ==
    {[name |-> "A", achieved |-> 0], [name |-> "A", achieved |-> 2],
     [name |-> "B", achieved |-> 1]}
UserStatsResponses ==
    {[playerstats |-> p] :
        p \in {[steamID |-> u] : u \in UserIds} \cup
              {[steamID |-> u, achievements |-> l] :
                  u \in UserIds, l \in SeqUpTo(UserStatEntries, MaxUnlocks)}}

\* GetPlayerAchievements responses.
PlayerEntries ==
    [apiname : {"A"}, achieved : {0, 1, 2}] \cup {[apiname |-> "playerstats", achieved |-> 1]}
PlayerResponses ==
    {[playerstats |-> p] :
        p \in {[steamID |-> u] : u \in UserIds} \cup
              {[steamID |-> u, achievements |-> l] :
                  u \in UserIds, l \in SeqUpTo(PlayerEntries, MaxPlayer)}}

\* --------------------------------------------------------------------------
\* The cache wrapper and the manual override (steamapi/decorators.py)
\* --------------------------------------------------------------------------
Call(api, resp) == [api |-> api, resp |-> resp]

\* How a computation ends: it returns a value or raises; either way it has issued
\* calls, may have stored into the instance's cache (a nested cached read), and
\* has constructed some SteamAchievement objects.
Returned(value, calls, cache, objs) ==
    [outcome |-> "ok", value |-> value, calls |-> calls, cache |-> cache,
     objs |-> objs, constructed |-> Len(objs)]
Raised(error, calls, cache, n) ==
    [outcome |-> error, value |-> None, calls |-> calls, cache |-> cache,
     objs |-> <<>>, constructed |-> n]

\* store(instance, property_name, value): insert the value into the cache map.
\* Every property here has TTL = INFINITE, so the entry's timestamp is never
\* consulted and is left out.
store(cache, prop, value) ==
    [k \in DOMAIN cache \cup {prop} |-> IF k = prop THEN value ELSE cache[k]]

\* A read of a cached property: a stored entry is returned without running the
\* computation; otherwise the computation runs, and its result is stored only if
\* it returned.
cached_property(cache, prop, comp) ==
    IF prop \in DOMAIN cache
    THEN [outcome |-> "ok", value |-> cache[prop], calls |-> <<>>, cache |-> cache,
          objs |-> <<>>, constructed |-> 0, computed |-> FALSE]
    ELSE IF comp.outcome = "ok"
         THEN [outcome |-> "ok", value |-> comp.value, calls |-> comp.calls,
               cache |-> store(comp.cache, prop, comp.value),
               objs |-> comp.objs, constructed |-> comp.constructed, computed |-> TRUE]
         ELSE [outcome |-> comp.outcome, value |-> None, calls |-> comp.calls,
               cache |-> comp.cache,
               objs |-> <<>>, constructed |-> comp.constructed, computed |-> TRUE]

\* --------------------------------------------------------------------------
\* SteamApp
\* --------------------------------------------------------------------------
\* (variant) the constructor keeps no name
SteamAppNameDropped(appid, name, owner) ==
    [id |-> appid, cache |-> <<>>, owner |-> owner, userid |-> owner]

SteamApp(appid, name, owner) ==
    [id |-> appid,
     cache |-> IF name # None THEN store(<<>>, "name", name) ELSE <<>>,
     owner |-> owner,
     userid |-> owner]

\* (variant) the fragment is not tested for its appid
FromApiResponseUnchecked(api_json, associated_userid) ==
    Returned(SteamApp(IF Has(api_json, "appid") THEN api_json.appid ELSE None,
                      IF Has(api_json, "name") THEN api_json.name ELSE None,
                      associated_userid), <<>>, <<>>, <<>>)

\* SteamApp.from_api_response
from_api_response(api_json, associated_userid) ==
    IF ~Has(api_json, "appid")
    THEN Raised("ValueError", <<>>, <<>>, 0)
    ELSE LET appid == api_json.appid
             name  == IF Has(api_json, "name") THEN api_json.name ELSE None
         IN  Returned(SteamApp(appid, name, associated_userid), <<>>, <<>>, <<>>)

\* (variant) the display name is taken for the identifier
SteamAchievementByDisplayName(linked_appid, apiname, displayname, linked_userid) ==
    [appid |-> linked_appid, id |-> displayname, displayname |-> displayname,
     userid |-> linked_userid, unlock_percentage |-> 0, cache |-> <<>>]

SteamAchievement(linked_appid, apiname, displayname, linked_userid) ==
    [appid |-> linked_appid, id |-> apiname, displayname |-> displayname,
     userid |-> linked_userid, unlock_percentage |-> 0, cache |-> <<>>]

\* (variant) a failed schema call is swallowed and an empty game stands in
SchemaSwallowed(self, s) ==
    IF Failed(s)
    THEN Returned([game |-> <<>>], <<Call("GetSchemaForGame", s)>>, self.cache, <<>>)
    ELSE Returned(s, <<Call("GetSchemaForGame", s)>>, self.cache, <<>>)

\* SteamApp._schema
_schema(self, s) ==
    IF Failed(s)
    THEN Raised("APIError", <<Call("GetSchemaForGame", s)>>, self.cache, 0)
    ELSE Returned(s, <<Call("GetSchemaForGame", s)>>, self.cache, <<>>)

\* (variant) only an achieved flag of exactly 1 counts
RECURSIVE AchievedNamesOnlyOne(_)
AchievedNamesOnlyOne(entries) ==
    IF entries = <<>> THEN <<>>
    ELSE (IF Head(entries).achieved = 1 THEN <<Head(entries).name>> ELSE <<>>)
         \o AchievedNamesOnlyOne(Tail(entries))

\* The names of the entries whose achieved flag is not 0, in order.
RECURSIVE AchievedNames(_)
AchievedNames(entries) ==
    IF entries = <<>> THEN <<>>
    ELSE (IF Head(entries).achieved # 0 THEN <<Head(entries).name>> ELSE <<>>)
         \o AchievedNames(Tail(entries))

\* unlocks after the per-user step: None, the list of achieved names, or, when
\* playerstats has no achievements key, still the response object itself.
Unlocks(self, u) ==
    IF self.userid # None
    THEN IF Has(u.playerstats, "achievements")
         THEN [kind |-> "list", names |-> AchievedNames(u.playerstats.achievements)]
         ELSE [kind |-> "response", resp |-> u]
    ELSE [kind |-> "None"]

\* apiname in unlocks
InUnlocks(apiname, unlocks) ==
    IF unlocks.kind = "list"
    THEN \E k \in DOMAIN unlocks.names : unlocks.names[k] = apiname
    ELSE Has(unlocks.resp, apiname)

\* (variant) the join forgets to compare the names
RECURSIVE JoinPercentAnyName(_, _, _)
JoinPercentAnyName(entries, apiname, percentage) ==
    IF entries = <<>> THEN percentage
    ELSE JoinPercentAnyName(Tail(entries), apiname, Head(entries).percent)

\* The inner loop over the global percentages: every entry of the same name
\* assigns unlock_percentage, so the last one stays.
RECURSIVE JoinPercent(_, _, _)
JoinPercent(entries, apiname, percentage) ==
    IF entries = <<>> THEN percentage
    ELSE JoinPercent(Tail(entries), apiname,
                     IF Head(entries).name = apiname THEN Head(entries).percent
                     ELSE percentage)

\* (variant) is_hidden is left to the achievement's own lazy lookup
BuildAchievementLazy(self, achievement, userid, global_entries) ==
    LET obj == SteamAchievement(self.id, achievement.name, achievement.displayName, userid)
    IN  [obj EXCEPT !.unlock_percentage =
                        JoinPercent(global_entries, achievement.name, @)]

\* One pass of the loop over the schema's achievement definitions.
BuildAchievement(self, achievement, userid, global_entries) ==
    LET obj == SteamAchievement(self.id, achievement.name, achievement.displayName, userid)
        hid == IF achievement.hidden = 0
               THEN store(obj.cache, "is_hidden", FALSE)
               ELSE store(obj.cache, "is_hidden", TRUE)
    IN  [obj EXCEPT !.cache = hid,
                    !.unlock_percentage = JoinPercent(global_entries, achievement.name, @)]

\* (variant) the override is stored even when there is no per-user data
MarkAchievedAlways(obj, unlocks) ==
    IF unlocks.kind # "None" /\ InUnlocks(obj.id, unlocks)
    THEN [obj EXCEPT !.cache = store(@, "is_achieved", TRUE)]
    ELSE [obj EXCEPT !.cache = store(@, "is_achieved", FALSE)]

\* The closing loop: the is_achieved override, when unlocks is not None.
MarkAchieved(obj, unlocks) ==
    IF unlocks.kind # "None"
    THEN IF InUnlocks(obj.id, unlocks)
         THEN [obj EXCEPT !.cache = store(@, "is_achieved", TRUE)]
         ELSE [obj EXCEPT !.cache = store(@, "is_achieved", FALSE)]
    ELSE obj

\* (variant) availableGameStats is read without the presence test
NoGameStatsUnchecked(calls, cache) == Raised("AttributeError", calls, cache, 0)

\* A schema without availableGameStats: a hidden app, the empty list is returned.
NoGameStats(calls, cache) == Returned(<<>>, calls, cache, <<>>)

\* (variant) the schema is looked at first, and a hidden app returns before the
\* statistics are fetched
AchievementsSchemaFirst(self, base, g, u, s) ==
    LET schema == cached_property(self.cache, "_schema", _schema(self, s))
        gcalls == schema.calls \o <<Call("GetGlobalAchievementPercentagesForApp", g)>>
        calls  == IF self.userid # None
                  THEN gcalls \o <<Call("GetUserStatsForGame", u)>>
                  ELSE gcalls
    IN  IF schema.outcome # "ok" THEN Raised(schema.outcome, schema.calls, schema.cache, 0)
        ELSE IF ~Has(schema.value.game, "availableGameStats")
             THEN NoGameStats(schema.calls, schema.cache)
        ELSE IF Failed(g) THEN Raised("APIError", gcalls, schema.cache, 0)
        ELSE IF self.userid # None /\ Failed(u) THEN Raised("APIError", calls, schema.cache, 0)
        ELSE IF ~Has(schema.value.game.availableGameStats, "achievements")
             THEN Raised("AttributeError", calls, schema.cache, 0)
        ELSE LET defs == schema.value.game.availableGameStats.achievements
                 unlocks == Unlocks(self, u)
             IN  IF defs # <<>> /\ ~Has(g.achievementpercentages, "achievements")
                 THEN Raised("AttributeError", calls, schema.cache, 1)
                 ELSE LET entries == IF defs = <<>> THEN <<>>
                                     ELSE g.achievementpercentages.achievements
                          objs == [k \in DOMAIN defs |->
                                     MarkAchieved(
                                         BuildAchievement(self, defs[k], self.userid, entries),
                                         unlocks)]
                      IN  Returned([k \in DOMAIN defs |-> base + k], calls,
                                   schema.cache, objs)

\* SteamApp.achievements. g, u and s are what the three remote calls give if
\* they are issued; base is the number of achievement objects already alive, so
\* that the returned list refers to fresh ones.
achievements(self, base, g, u, s) ==
    LET gcalls == <<Call("GetGlobalAchievementPercentagesForApp", g)>>
        ucalls == IF self.userid # None
                  THEN gcalls \o <<Call("GetUserStatsForGame", u)>>
                  ELSE gcalls
        userid == self.userid
        schema == cached_property(self.cache, "_schema", _schema(self, s))
        calls  == ucalls \o schema.calls
    IN  IF Failed(g) THEN Raised("APIError", gcalls, self.cache, 0)
        ELSE IF self.userid # None /\ Failed(u) THEN Raised("APIError", ucalls, self.cache, 0)
        ELSE IF schema.outcome # "ok" THEN Raised(schema.outcome, calls, schema.cache, 0)
        ELSE IF ~Has(schema.value.game, "availableGameStats")
             THEN NoGameStats(calls, schema.cache)
        ELSE IF ~Has(schema.value.game.availableGameStats, "achievements")
             THEN Raised("AttributeError", calls, schema.cache, 0)
        ELSE LET defs == schema.value.game.availableGameStats.achievements
                 unlocks == Unlocks(self, u)
             IN  IF defs # <<>> /\ ~Has(g.achievementpercentages, "achievements")
                 THEN Raised("AttributeError", calls, schema.cache, 1)
                 ELSE LET entries == IF defs = <<>> THEN <<>>
                                     ELSE g.achievementpercentages.achievements
                          objs == [k \in DOMAIN defs |->
                                     MarkAchieved(
                                         BuildAchievement(self, defs[k], userid, entries),
                                         unlocks)]
                      IN  Returned([k \in DOMAIN defs |-> base + k], calls,
                                   schema.cache, objs)

\* (variant) name fetches the schema itself instead of reading the cached one
NameUncached(self, s) ==
    LET schema == _schema(self, s)
    IN  IF schema.outcome # "ok" THEN Raised(schema.outcome, schema.calls, schema.cache, 0)
        ELSE IF Has(schema.value.game, "gameName")
             THEN Returned(schema.value.game.gameName, schema.calls, schema.cache, <<>>)
             ELSE Returned("<Unknown>", schema.calls, schema.cache, <<>>)

\* SteamApp.name
name(self, s) ==
    LET schema == cached_property(self.cache, "_schema", _schema(self, s))
    IN  IF schema.outcome # "ok" THEN Raised(schema.outcome, schema.calls, schema.cache, 0)
        ELSE IF Has(schema.value.game, "gameName")
             THEN Returned(schema.value.game.gameName, schema.calls, schema.cache, <<>>)
             ELSE Returned("<Unknown>", schema.calls, schema.cache, <<>>)

\* SteamApp.owner
owner(self) ==
    IF self.owner = None
    THEN Returned(self.userid, <<>>, self.cache, <<>>)
    ELSE Returned(self.owner, <<>>, self.cache, <<>>)

\* str() of a non-negative integer.
Digits == <<"0", "1", "2", "3", "4", "5", "6", "7", "8", "9">>
RECURSIVE str(_)
str(n) == IF n < 10 THEN Digits[n + 1] ELSE str(n \div 10) \o Digits[(n % 10) + 1]

\* None where the value is an object; it is false in a condition, a Response is
\* true.
NoneObject == [None |-> TRUE]
Truthy(v) == ~Has(v, "None")

\* SteamApp.app_info: the store's answer is keyed by the string form of the id.
app_info(self, response) ==
    LET calls == <<Call("appdetails", response)>>
    IN  IF Failed(response) THEN Raised("APIError", calls, self.cache, 0)
        ELSE IF ~Has(response, str(self.id)) THEN Raised("KeyError", calls, self.cache, 0)
        ELSE IF response[str(self.id)].success
             THEN IF Has(response[str(self.id)], "data")
                  THEN Returned(response[str(self.id)].data, calls, self.cache, <<>>)
                  ELSE Raised("AttributeError", calls, self.cache, 0)
             ELSE Returned(NoneObject, calls, self.cache, <<>>)

\* The fields of the accessors derived from app_info (type, required_age, ...,
\* release_date).
DerivedFields ==
    {"type", "required_age", "dlc", "detailed_description", "about_the_game",
     "supported_languages", "header_image", "legal_notice", "website",
     "pc_requirements", "mac_requirements", "linux_requirements", "fullgame",
     "developers", "publishers", "demos", "price_overview", "platforms",
     "metacritic", "categories", "genres", "recommendations", "release_date"}

\* (variant) the field is read without the test for an absent app_info
DerivedUnchecked(self, field, response) ==
    LET info == cached_property(self.cache, "app_info", app_info(self, response))
    IN  IF info.outcome # "ok" THEN Raised(info.outcome, info.calls, info.cache, 0)
        ELSE IF Has(info.value, field)
             THEN Returned(info.value[field], info.calls, info.cache, <<>>)
             ELSE Raised("AttributeError", info.calls, info.cache, 0)

\* (variant) the accessor fetches the store metadata itself
DerivedOwnCall(self, field, response) ==
    LET info == app_info(self, response)
    IN  IF info.outcome # "ok" THEN Raised(info.outcome, info.calls, info.cache, 0)
        ELSE IF Truthy(info.value)
             THEN IF Has(info.value, field)
                  THEN Returned(info.value[field], info.calls, info.cache, <<>>)
                  ELSE Raised("AttributeError", info.calls, info.cache, 0)
             ELSE Returned(None, info.calls, info.cache, <<>>)

\* Each derived accessor is `if self.app_info: return self.app_info.<field>`.
derived(self, field, response) ==
    LET info == cached_property(self.cache, "app_info", app_info(self, response))
    IN  IF info.outcome # "ok" THEN Raised(info.outcome, info.calls, info.cache, 0)
        ELSE IF Truthy(info.value)
             THEN IF Has(info.value, field)
                  THEN Returned(info.value[field], info.calls, info.cache, <<>>)
                  ELSE Raised("AttributeError", info.calls, info.cache, 0)
             ELSE Returned(None, info.calls, info.cache, <<>>)

\* appdetails responses: success = false carries no data; a full record, and one
\* of a game that has no demo, no DLC, no price and no metacritic score.
OptionalStoreFields == {"fullgame", "dlc", "demos", "price_overview", "metacritic"}
StoreData ==
    {[f \in DerivedFields |-> "data"],
     [f \in DerivedFields \ OptionalStoreFields |-> "data"]}
StoreResponses ==
    {[k \in {str(a)} |-> [success |-> FALSE]] : a \in AppIds} \cup
    {[k \in {str(a)} |-> [success |-> TRUE, data |-> d]] : a \in AppIds, d \in StoreData}

\* --------------------------------------------------------------------------
\* SteamAchievement
\* --------------------------------------------------------------------------
\* The loop of is_hidden: the first definition of this name decides; with none
\* the function falls off its end and returns None.
RECURSIVE HiddenOf(_, _)
HiddenOf(defs, id) ==
    IF defs = <<>> THEN None
    ELSE IF Head(defs).name = id
         THEN (IF Head(defs).hidden = 0 THEN FALSE ELSE TRUE)
         ELSE HiddenOf(Tail(defs), id)

\* SteamAchievement.is_hidden
is_hidden(self, response) ==
    LET calls == <<Call("GetSchemaForGame", response)>>
    IN  IF Failed(response) THEN Raised("APIError", calls, self.cache, 0)
        ELSE IF ~Has(response.game, "availableGameStats")
             THEN Raised("AttributeError", calls, self.cache, 0)
        ELSE IF ~Has(response.game.availableGameStats, "achievements")
             THEN Raised("AttributeError", calls, self.cache, 0)
        ELSE Returned(HiddenOf(response.game.availableGameStats.achievements, self.id),
                      calls, self.cache, <<>>)

\* (variant) any entry of this apiname with a flag other than 0 counts, as in
\* the aggregation
RECURSIVE UnlockedOfAnyNonZero(_, _)
UnlockedOfAnyNonZero(entries, id) ==
    IF entries = <<>> THEN FALSE
    ELSE IF Head(entries).apiname = id /\ Head(entries).achieved # 0 THEN TRUE
         ELSE UnlockedOfAnyNonZero(Tail(entries), id)

\* The loop of is_unlocked: the first entry of this apiname decides.
RECURSIVE UnlockedOf(_, _)
UnlockedOf(entries, id) ==
    IF entries = <<>> THEN FALSE
    ELSE IF Head(entries).apiname = id
         THEN (IF Head(entries).achieved = 1 THEN TRUE ELSE FALSE)
         ELSE UnlockedOf(Tail(entries), id)

\* (variant) the call is issued without the test for a bound user id
IsUnlockedUnguarded(self, response) ==
    LET calls == <<Call("GetPlayerAchievements", response)>>
    IN  IF Failed(response) THEN Raised("APIError", calls, self.cache, 0)
        ELSE IF ~Has(response.playerstats, "achievements")
             THEN Raised("AttributeError", calls, self.cache, 0)
        ELSE Returned(UnlockedOf(response.playerstats.achievements, self.id),
                      calls, self.cache, <<>>)

\* SteamAchievement.is_unlocked
is_unlocked(self, response) ==
    LET calls == <<Call("GetPlayerAchievements", response)>>
    IN  IF self.userid = None THEN Raised("ValueError", <<>>, self.cache, 0)
        ELSE IF Failed(response) THEN Raised("APIError", calls, self.cache, 0)
        ELSE IF ~Has(response.playerstats, "achievements")
             THEN Raised("AttributeError", calls, self.cache, 0)
        ELSE Returned(UnlockedOf(response.playerstats.achievements, self.id),
                      calls, self.cache, <<>>)

\* --------------------------------------------------------------------------
\* The reads, one action per property. Each takes the sets its remote calls
\* draw their outcomes from.
\* --------------------------------------------------------------------------
Outcomes(responses, used) == IF used THEN responses \cup {CallFailed} ELSE {CallFailed}

\* What a read leaves to observe. A read that raised hands no response to its
\* caller: of its calls only the order and the one that failed are kept.
Dropped == [dropped |-> TRUE]
Report(op, target, r) ==
    [op |-> op, target |-> target, outcome |-> r.outcome, value |-> r.value,
     calls |-> IF r.outcome = "ok" THEN r.calls
               ELSE [k \in DOMAIN r.calls |->
                       Call(r.calls[k].api,
                            IF Failed(r.calls[k].resp) THEN CallFailed ELSE Dropped)],
     constructed |-> r.constructed, computed |-> r.computed]

Cached(i, prop) == prop \in DOMAIN apps[i].cache

ReadAchievements(i, G, U, S) ==
    LET self == apps[i]
        miss == ~Cached(i, "achievements")
    IN  \E g \in Outcomes(G, miss) :
        \E u \in Outcomes(U, miss /\ self.userid # None) :
        \E s \in Outcomes(S, miss /\ ~Cached(i, "_schema")) :
            LET r == cached_property(self.cache, "achievements",
                                     achievements(self, Len(achs), g, u, s))
            IN  /\ apps' = [apps EXCEPT ![i].cache = r.cache]
                /\ achs' = achs \o r.objs
                /\ last' = Report("achievements", i, r)

\* (variant) the schema is stored in one cache shared by all instances
ReadSchemaShared(i, S) ==
    LET self == apps[i]
    IN  \E s \in Outcomes(S, ~Cached(i, "_schema")) :
            LET r == cached_property(self.cache, "_schema", _schema(self, s))
            IN  /\ apps' = [j \in DOMAIN apps |->
                              IF Cached(i, "_schema") \/ r.outcome # "ok" THEN apps[j]
                              ELSE [apps[j] EXCEPT !.cache = store(@, "_schema", r.value)]]
                /\ last' = Report("_schema", i, r)
                /\ UNCHANGED achs

ReadSchema(i, S) ==
    LET self == apps[i]
    IN  \E s \in Outcomes(S, ~Cached(i, "_schema")) :
            LET r == cached_property(self.cache, "_schema", _schema(self, s))
            IN  /\ apps' = [apps EXCEPT ![i].cache = r.cache]
                /\ last' = Report("_schema", i, r)
                /\ UNCHANGED achs

ReadName(i, S) ==
    LET self == apps[i]
    IN  \E s \in Outcomes(S, ~Cached(i, "name") /\ ~Cached(i, "_schema")) :
            LET r == cached_property(self.cache, "name", name(self, s))
            IN  /\ apps' = [apps EXCEPT ![i].cache = r.cache]
                /\ last' = Report("name", i, r)
                /\ UNCHANGED achs

ReadOwner(i) ==
    LET self == apps[i]
        r == cached_property(self.cache, "owner", owner(self))
    IN  /\ apps' = [apps EXCEPT ![i].cache = r.cache]
        /\ last' = Report("owner", i, r)
        /\ UNCHANGED achs

ReadAppInfo(i, R) ==
    LET self == apps[i]
    IN  \E response \in Outcomes(R, ~Cached(i, "app_info")) :
            LET r == cached_property(self.cache, "app_info", app_info(self, response))
            IN  /\ apps' = [apps EXCEPT ![i].cache = r.cache]
                /\ last' = Report("app_info", i, r)
                /\ UNCHANGED achs

\* The derived accessors are plain properties: nothing of their own is cached.
ReadDerived(i, field, R) ==
    LET self == apps[i]
    IN  \E response \in Outcomes(R, ~Cached(i, "app_info")) :
            LET r == derived(self, field, response)
            IN  /\ apps' = [apps EXCEPT ![i].cache = r.cache]
                /\ last' = Report(field, i, r @@ [computed |-> TRUE])
                /\ UNCHANGED achs

ReadIsHidden(o, S) ==
    LET self == achs[o]
    IN  \E s \in Outcomes(S, "is_hidden" \notin DOMAIN self.cache) :
            LET r == cached_property(self.cache, "is_hidden", is_hidden(self, s))
            IN  /\ achs' = [achs EXCEPT ![o].cache = r.cache]
                /\ last' = Report("is_hidden", o, r)
                /\ UNCHANGED apps

ReadIsUnlocked(o, P) ==
    LET self == achs[o]
    IN  \E p \in Outcomes(P, "is_unlocked" \notin DOMAIN self.cache /\ self.userid # None) :
            LET r == cached_property(self.cache, "is_unlocked", is_unlocked(self, p))
            IN  /\ achs' = [achs EXCEPT ![o].cache = r.cache]
                /\ last' = Report("is_unlocked", o, r)
                /\ UNCHANGED apps

Init ==
    /\ \E appid \in AppIds, nm \in GameNames \cup {None}, own \in UserIds \cup {None} :
           apps = <<SteamApp(appid, nm, own)>>
    /\ achs = <<>>
    /\ last = [op |-> "init", target |-> 0, outcome |-> "ok", value |-> None,
               calls |-> <<>>, constructed |-> 0, computed |-> FALSE]

\* The aggregation, over every response within the bounds.
Next ==
    \/ \E i \in DOMAIN apps :
           ReadAchievements(i, GlobalResponses, UserStatsResponses, SchemaResponses)
    \/ \E i \in DOMAIN apps : ReadSchema(i, SchemaResponses)
    \/ \E i \in DOMAIN apps : ReadName(i, SchemaResponses)

Spec == Init /\ [][Next]_vars

\* Every cached property of SteamApp, over the responses with at most one entry
\* in each list.
Short(l) == Len(l) <= 1
ShortSchemaResponses ==
    {s \in SchemaResponses :
        Has(s.game, "availableGameStats") /\ Has(s.game.availableGameStats, "achievements")
            => Short(s.game.availableGameStats.achievements)}
ShortGlobalResponses ==
    {g \in GlobalResponses :
        Has(g.achievementpercentages, "achievements")
            => Short(g.achievementpercentages.achievements)}
ShortUserStatsResponses ==
    {u \in UserStatsResponses :
        Has(u.playerstats, "achievements") => Short(u.playerstats.achievements)}

NextApp ==
    \/ \E i \in DOMAIN apps :
           ReadAchievements(i, ShortGlobalResponses, ShortUserStatsResponses,
                            ShortSchemaResponses)
    \/ \E i \in DOMAIN apps : ReadSchema(i, ShortSchemaResponses)
    \/ \E i \in DOMAIN apps : ReadName(i, ShortSchemaResponses)
    \/ \E i \in DOMAIN apps : ReadOwner(i)
    \/ \E i \in DOMAIN apps : ReadAppInfo(i, StoreResponses)

SpecApp == Init /\ [][NextApp]_vars

\* The achievements an application hands out (at most two of them, from short
\* global and per-user lists), and the reads on them.
PairSchemaResponses ==
    {s \in SchemaResponses :
        Has(s.game, "availableGameStats") /\ Has(s.game.availableGameStats, "achievements")
            => Len(s.game.availableGameStats.achievements) <= 2}

NextAch ==
    \/ \E i \in DOMAIN apps :
           ReadAchievements(i, ShortGlobalResponses, ShortUserStatsResponses,
                            PairSchemaResponses)
    \/ \E o \in DOMAIN achs : ReadIsHidden(o, SchemaResponses)
    \/ \E o \in DOMAIN achs : ReadIsUnlocked(o, PlayerResponses)

SpecAch == Init /\ [][NextAch]_vars

\* The store metadata and the accessors derived from it.
NextStore ==
    \/ \E i \in DOMAIN apps : ReadAppInfo(i, StoreResponses)
    \/ \E i \in DOMAIN apps, field \in DerivedFields : ReadDerived(i, field, StoreResponses)
    \/ \E i \in DOMAIN apps : ReadOwner(i)

SpecStore == Init /\ [][NextStore]_vars

\* --------------------------------------------------------------------------
\* Identity keys, and achievements constructed by a caller
\* --------------------------------------------------------------------------
\* Python compares values of different types unequal: the string "100" is not
\* the integer 100. A key is a tuple of such values.
PyStr(s) == [str |-> s]
PyInt(n) == [int |-> n]

\* The tuple SteamApp.__hash__ hashes.
SteamApp__hash__(self) == <<PyStr("app"), PyInt(self.id)>>

\* The tuple SteamAchievement.__hash__ hashes.
SteamAchievement__hash__(self) == <<PyStr(self.id), PyInt(self.appid)>>

\* The api names and linked app ids a caller constructs achievements with: an
\* ordinary name, the string "app", and the string form of the app's id; the
\* app's own id and another one.
ApiNames == {"A", "app"} \cup {str(a) : a \in AppIds}
LinkedAppIds == AppIds \cup {200}
MaxDirect == 1

\* SteamAchievement(linked_appid, apiname, displayname, linked_userid) called
\* directly: nothing is stored in the new object's cache.
Construct(linked_appid, apiname, displayname, linked_userid) ==
    /\ Len(achs) < MaxDirect
    /\ achs' = Append(achs, SteamAchievement(linked_appid, apiname, displayname,
                                             linked_userid))
    /\ last' = [op |-> "SteamAchievement", target |-> Len(achs) + 1, outcome |-> "ok",
                value |-> None, calls |-> <<>>, constructed |-> 1, computed |-> FALSE]
    /\ UNCHANGED apps

HashApp(i) ==
    /\ last' = [op |-> "SteamApp.__hash__", target |-> i, outcome |-> "ok",
                value |-> SteamApp__hash__(apps[i]), calls |-> <<>>,
                constructed |-> 0, computed |-> TRUE]
    /\ UNCHANGED <<apps, achs>>

HashAchievement(o) ==
    /\ last' = [op |-> "SteamAchievement.__hash__", target |-> o, outcome |-> "ok",
                value |-> SteamAchievement__hash__(achs[o]), calls |-> <<>>,
                constructed |-> 0, computed |-> TRUE]
    /\ UNCHANGED <<apps, achs>>

ShortPlayerResponses ==
    {p \in PlayerResponses :
        Has(p.playerstats, "achievements") => Short(p.playerstats.achievements)}

NextDirect ==
    \/ \E a \in LinkedAppIds, n \in ApiNames, u \in UserIds \cup {None} :
           Construct(a, n, "Name", u)
    \/ \E i \in DOMAIN apps : HashApp(i)
    \/ \E o \in DOMAIN achs : HashAchievement(o)
    \/ \E o \in DOMAIN achs : ReadIsHidden(o, ShortSchemaResponses)
    \/ \E o \in DOMAIN achs : ReadIsUnlocked(o, ShortPlayerResponses)

SpecDirect == Init /\ [][NextDirect]_vars

\* --------------------------------------------------------------------------
\* Several SteamApp instances, constructed directly or from a response fragment
\* --------------------------------------------------------------------------
MaxApps == 2
SuppliedNames == {"Half-Life"}

\* Fragments of a response listing games: appid and name are optional.
ApiFragments ==
    LET named(f) == {f} \cup {f @@ [name |-> n] : n \in SuppliedNames}
    IN  UNION {named(f) : f \in {[playtime_forever |-> 5]} \cup
                                {[appid |-> a, playtime_forever |-> 5] : a \in LinkedAppIds}}

\* SteamApp(appid, name, owner) called by the program.
NewApp(appid, nm, own) ==
    /\ Len(apps) < MaxApps
    /\ apps' = Append(apps, SteamApp(appid, nm, own))
    /\ last' = [op |-> "SteamApp", target |-> Len(apps) + 1, outcome |-> "ok",
                value |-> None, calls |-> <<>>, constructed |-> 0, computed |-> FALSE,
                args |-> <<appid, nm, own>>]
    /\ UNCHANGED achs

FromApiResponse(api_json, associated_userid) ==
    /\ Has(api_json, "appid") => Len(apps) < MaxApps
    /\ LET r == from_api_response(api_json, associated_userid)
       IN  /\ apps' = IF r.outcome = "ok" THEN Append(apps, r.value) ELSE apps
           /\ last' = [op |-> "from_api_response",
                       target |-> IF r.outcome = "ok" THEN Len(apps) + 1 ELSE 0,
                       outcome |-> r.outcome, value |-> r.value, calls |-> r.calls,
                       constructed |-> 0, computed |-> TRUE,
                       args |-> <<api_json, associated_userid>>]
    /\ UNCHANGED achs

\* One response of each kind per call: a game without a name and without
\* achievement data and a named game with one achievement; one global entry;
\* one achieved entry; a full store answer.
TinySchemaResponses ==
    {[game |-> <<>>]} \cup
    {[game |-> [gameName |-> n,
                availableGameStats |-> [stats |-> <<>>, achievements |-> <<d>>]]] :
         n \in GameNames, d \in {x \in SchemaDefs : x.name = "A"}}
TinyGlobalResponses ==
    {g \in ShortGlobalResponses :
        /\ Has(g.achievementpercentages, "achievements")
        /\ g.achievementpercentages.achievements # <<>>
        /\ g.achievementpercentages.achievements[1].name = "A"}
TinyUserStatsResponses ==
    {u \in ShortUserStatsResponses :
        /\ Has(u.playerstats, "achievements")
        /\ u.playerstats.achievements # <<>>
        /\ u.playerstats.achievements[1].achieved = 2}
TinyStoreResponses ==
    {r \in StoreResponses :
        \A k \in DOMAIN r : r[k].success /\ DOMAIN r[k].data = DerivedFields}

\* Instances from both constructors, and their names.
NextInst ==
    \/ \E appid \in AppIds, nm \in SuppliedNames \cup {None}, own \in UserIds \cup {None} :
           NewApp(appid, nm, own)
    \/ \E api_json \in ApiFragments, u \in UserIds \cup {None} :
           FromApiResponse(api_json, u)
    \/ \E i \in DOMAIN apps : ReadName(i, TinySchemaResponses)
    \/ \E i \in DOMAIN apps : ReadSchema(i, TinySchemaResponses)

SpecInst == Init /\ [][NextInst]_vars

\* Instances for one and the same id, and the reads that fetch.
NextPair ==
    \/ \E appid \in AppIds, own \in UserIds : NewApp(appid, None, own)
    \/ \E i \in DOMAIN apps : ReadSchema(i, TinySchemaResponses)
    \/ \E i \in DOMAIN apps :
           ReadAchievements(i, TinyGlobalResponses, TinyUserStatsResponses,
                            TinySchemaResponses)
    \/ \E i \in DOMAIN apps : ReadAppInfo(i, TinyStoreResponses)

SpecPair == Init /\ [][NextPair]_vars

\* --------------------------------------------------------------------------
\* Properties of the aggregation (specification Spec)
\* --------------------------------------------------------------------------
\* The read that has just ended computed achievements and returned.
Aggregated == last.op = "achievements" /\ last.outcome = "ok" /\ last.computed
Bound == apps[last.target].userid # None
\* The achievement objects that read returned, in order.
ReturnedAch == [k \in DOMAIN last.value |-> achs[last.value[k]]]
\* The responses that read got.
GlobalGot == last.calls[1].resp
UserStatsGot == last.calls[2].resp
SchemaNow == apps[last.target].cache["_schema"]
HasApi(calls, api) == \E k \in DOMAIN calls : calls[k].api = api
AnyFailed(calls) == \E k \in DOMAIN calls : Failed(calls[k].resp)

\* C1: with a user bound and no achievements key under playerstats, every
\* returned achievement has is_achieved stored as False, whatever its api_name.
C1_NoKeyNoneAchieved ==
    (Aggregated /\ Bound /\ ~Has(UserStatsGot.playerstats, "achievements"))
        => \A k \in DOMAIN ReturnedAch :
               /\ "is_achieved" \in DOMAIN ReturnedAch[k].cache
               /\ ReturnedAch[k].cache["is_achieved"] = FALSE

\* C2: with a user bound and an achievements list in the per-user response,
\* every returned achievement has is_achieved stored, and it is True exactly
\* when some entry of the list has its name and an achieved flag other than 0.
C2_AchievedIffListed ==
    (Aggregated /\ Bound /\ Has(UserStatsGot.playerstats, "achievements"))
        => \A k \in DOMAIN ReturnedAch :
               /\ "is_achieved" \in DOMAIN ReturnedAch[k].cache
               /\ ReturnedAch[k].cache["is_achieved"] =
                      (\E e \in DOMAIN UserStatsGot.playerstats.achievements :
                           /\ UserStatsGot.playerstats.achievements[e].name = ReturnedAch[k].id
                           /\ UserStatsGot.playerstats.achievements[e].achieved # 0)

C2_Witness ==
    /\ Aggregated /\ Bound /\ Has(UserStatsGot.playerstats, "achievements")
    /\ Len(UserStatsGot.playerstats.achievements) = 2
    /\ \E j, k \in DOMAIN ReturnedAch :
           /\ ReturnedAch[j].cache["is_achieved"] = TRUE
           /\ ReturnedAch[k].cache["is_achieved"] = FALSE

\* C3: unlock_percentage is the percent of the global entry of the same name
\* (the last one, should the name repeat) and 0.0 when there is none; entries
\* naming no schema achievement add no achievement and change no value.
SchemaAch == SchemaNow.game.availableGameStats.achievements
GlobalList ==
    IF Has(GlobalGot.achievementpercentages, "achievements")
    THEN GlobalGot.achievementpercentages.achievements ELSE <<>>
Matching(apiname) == {e \in DOMAIN GlobalList : GlobalList[e].name = apiname}
Max(S) == CHOOSE m \in S : \A x \in S : x <= m
IsOrphan(entry) == \A d \in DOMAIN SchemaAch : SchemaAch[d].name # entry.name
WithoutOrphans == SelectSeq(GlobalList, LAMBDA entry : ~IsOrphan(entry))

C3_PercentJoinedByName ==
    (Aggregated /\ Has(SchemaNow.game, "availableGameStats"))
        => /\ Len(ReturnedAch) = Len(SchemaAch)
           /\ \A k \in DOMAIN ReturnedAch :
                  /\ ReturnedAch[k].id = SchemaAch[k].name
                  /\ ReturnedAch[k].unlock_percentage =
                         (IF Matching(ReturnedAch[k].id) = {} THEN 0
                          ELSE GlobalList[Max(Matching(ReturnedAch[k].id))].percent)
                  /\ ReturnedAch[k].unlock_percentage =
                         JoinPercent(WithoutOrphans, ReturnedAch[k].id, 0)

C3_Witness ==
    /\ Aggregated /\ Has(SchemaNow.game, "availableGameStats")
    /\ Len(ReturnedAch) = 2
    /\ \E e \in DOMAIN GlobalList : IsOrphan(GlobalList[e])
    /\ \E j, k \in DOMAIN ReturnedAch :
           /\ ReturnedAch[j].unlock_percentage = 10
           /\ ReturnedAch[k].unlock_percentage = 0

\* C4: when the schema has no availableGameStats, a computation of achievements
\* whose calls all answered returns the empty sequence without raising and
\* constructs no achievement, with or without a user.
C4_HiddenAppIsEmpty ==
    (/\ last.op = "achievements" /\ last.computed /\ ~AnyFailed(last.calls)
     /\ Cached(last.target, "_schema") /\ ~Has(SchemaNow.game, "availableGameStats"))
        => last.outcome = "ok" /\ last.value = <<>> /\ last.constructed = 0

C4_Witness ==
    /\ Aggregated /\ Bound /\ ~Has(SchemaNow.game, "availableGameStats")
    /\ last.value = <<>> /\ last.constructed = 0
    /\ GlobalList # <<>>
    /\ Has(UserStatsGot.playerstats, "achievements")
    /\ UserStatsGot.playerstats.achievements # <<>>

\* C5: without a user id no per-user stats call is issued, and every returned
\* achievement has user id None and a cache holding is_hidden only.
C5_UnboundLeavesAchievedUnset ==
    (last.op = "achievements" /\ ~Bound)
        => /\ ~HasApi(last.calls, "GetUserStatsForGame")
           /\ last.outcome = "ok" =>
                  \A k \in DOMAIN ReturnedAch :
                      /\ DOMAIN ReturnedAch[k].cache = {"is_hidden"}
                      /\ ReturnedAch[k].userid = None

C5_Witness ==
    Aggregated /\ ~Bound /\ Len(ReturnedAch) = 2

\* C8: a read of achievements in which a remote call raises ends with that
\* error and stores nothing for achievements; a read that finds no entry runs
\* the computation, starting with the global-percentages call.
C8_FailureIsNotCached ==
    [][ last'.op = "achievements" =>
          /\ AnyFailed(last'.calls) =>
                 /\ last'.outcome = "APIError"
                 /\ "achievements" \notin DOMAIN apps'[last'.target].cache
                 /\ achs' = achs
          /\ ~Cached(last'.target, "achievements") =>
                 /\ last'.computed
                 /\ last'.calls # <<>>
                 /\ last'.calls[1].api = "GetGlobalAchievementPercentagesForApp" ]_vars

C8_Witness ==
    /\ last.op = "achievements" /\ last.outcome = "APIError"
    /\ Len(last.calls) = 3 /\ Failed(last.calls[3].resp)
    /\ ~Cached(last.target, "achievements")

\* C13: with availableGameStats present, the returned sequence has one fresh
\* SteamAchievement per schema definition, in schema order; the k-th carries the
\* application's id, the k-th definition's name and displayName, and the
\* application's bound user id.
C13_OnePerDefinitionInOrder ==
    (Aggregated /\ Has(SchemaNow.game, "availableGameStats"))
        => /\ Len(last.value) = Len(SchemaAch)
           /\ last.constructed = Len(SchemaAch)
           /\ \A j, k \in DOMAIN last.value : j # k => last.value[j] # last.value[k]
           /\ \A k \in DOMAIN ReturnedAch :
                  /\ ReturnedAch[k].appid = apps[last.target].id
                  /\ ReturnedAch[k].id = SchemaAch[k].name
                  /\ ReturnedAch[k].displayname = SchemaAch[k].displayName
                  /\ ReturnedAch[k].userid = apps[last.target].userid

C13_Witness ==
    /\ Aggregated /\ Bound /\ Has(SchemaNow.game, "availableGameStats")
    /\ Len(ReturnedAch) = 2
    /\ ReturnedAch[1].id = "playerstats" /\ ReturnedAch[1].displayname = "Second"
    /\ ReturnedAch[2].id = "A" /\ ReturnedAch[2].userid = "u1"

\* The calls of a computation of achievements, by name.
GlobalCalls == {k \in DOMAIN last.calls :
                   last.calls[k].api = "GetGlobalAchievementPercentagesForApp"}
UserStatsCalls == {k \in DOMAIN last.calls : last.calls[k].api = "GetUserStatsForGame"}
SchemaCalls == {k \in DOMAIN last.calls : last.calls[k].api = "GetSchemaForGame"}

\* C17 as stated: every computation of achievements issues the global call
\* once and first, and the per-user call exactly when a user id is bound.
C17_UserCallIffBound ==
    (last.op = "achievements" /\ last.computed)
        => /\ GlobalCalls = {1}
           /\ (UserStatsCalls # {}) = Bound

\* C17, amended: every computation of achievements issues the global call once
\* and first; the per-user call is issued, once and second, exactly when a user
\* id is bound and the global call answered; a schema call comes after both;
\* and when the schema lacks availableGameStats both have been issued.
C17_GlobalFirstThenUser ==
    (last.op = "achievements" /\ last.computed)
        => /\ GlobalCalls = {1}
           /\ UserStatsCalls = (IF Bound /\ ~Failed(last.calls[1].resp) THEN {2} ELSE {})
           /\ \A k \in SchemaCalls :
                  /\ k = Len(last.calls)
                  /\ k = (IF Bound THEN 3 ELSE 2)
                  /\ \A j \in 1..(k - 1) : ~Failed(last.calls[j].resp)
           /\ (/\ last.outcome = "ok"
               /\ ~Has(SchemaNow.game, "availableGameStats"))
                  => /\ GlobalCalls = {1}
                     /\ Bound => UserStatsCalls = {2}

C17_Witness ==
    /\ Aggregated /\ Bound /\ ~Has(SchemaNow.game, "availableGameStats")
    /\ Len(last.calls) = 3
    /\ GlobalCalls = {1} /\ UserStatsCalls = {2} /\ SchemaCalls = {3}

\* --------------------------------------------------------------------------
\* Properties of the reads on achievements (specification SpecAch)
\* --------------------------------------------------------------------------
\* C6: is_unlocked on an achievement without a user id raises ValueError, issues
\* no call and stores no entry, at the first read and at every later one.
C6_UnboundUnlockedRaises ==
    /\ \A o \in DOMAIN achs :
           achs[o].userid = None => "is_unlocked" \notin DOMAIN achs[o].cache
    /\ (last.op = "is_unlocked" /\ achs[last.target].userid = None)
           => last.outcome = "ValueError" /\ last.calls = <<>>

C6_Witness ==
    /\ last.op = "is_unlocked" /\ achs[last.target].userid = None
    /\ last.outcome = "ValueError"
    /\ Len(achs) = 2

\* The schema definition an achievement object was built from.
DefOf(o) ==
    LET at == CHOOSE ik \in {<<i, k>> : i \in DOMAIN apps, k \in DOMAIN achs} :
                  /\ Cached(ik[1], "achievements")
                  /\ ik[2] \in DOMAIN apps[ik[1]].cache["achievements"]
                  /\ apps[ik[1]].cache["achievements"][ik[2]] = o
    IN  apps[at[1]].cache["_schema"].game.availableGameStats.achievements[at[2]]

\* C9: every achievement handed out has is_hidden stored, False for a hidden
\* marker of 0 and True otherwise, and a read of is_hidden returns that value
\* without computing and without a call.
C9_HiddenIsOverridden ==
    /\ \A o \in DOMAIN achs :
           /\ "is_hidden" \in DOMAIN achs[o].cache
           /\ achs[o].cache["is_hidden"] = (DefOf(o).hidden # 0)
    /\ last.op = "is_hidden"
           => /\ last.outcome = "ok" /\ ~last.computed /\ last.calls = <<>>
              /\ last.value = (DefOf(last.target).hidden # 0)

C9_Witness ==
    /\ last.op = "is_hidden" /\ last.value = TRUE /\ last.calls = <<>>
    /\ \E o \in DOMAIN achs : achs[o].cache["is_hidden"] = FALSE

Min(S) == CHOOSE m \in S : \A x \in S : m <= x

\* C18: on an achievement with is_achieved stored, a read of is_unlocked leaves
\* that entry as it is; the first read issues the player-achievements call, and
\* it alone, and when it returns the value is stored under is_unlocked and is
\* True exactly when the first entry of this api_name has achieved = 1 (False
\* with no such entry); a later read returns the stored value without a call.
C18_UnlockedIsItsOwnEntry ==
    [][ (last'.op = "is_unlocked" /\ "is_achieved" \in DOMAIN achs[last'.target].cache) =>
          LET o == last'.target
          IN  /\ "is_achieved" \in DOMAIN achs'[o].cache
              /\ achs'[o].cache["is_achieved"] = achs[o].cache["is_achieved"]
              /\ apps' = apps
              /\ \A x \in DOMAIN achs : x # o => achs'[x] = achs[x]
              /\ IF "is_unlocked" \in DOMAIN achs[o].cache
                 THEN /\ last'.calls = <<>>
                      /\ last'.outcome = "ok"
                      /\ last'.value = achs[o].cache["is_unlocked"]
                      /\ achs' = achs
                 ELSE /\ Len(last'.calls) = 1
                      /\ last'.calls[1].api = "GetPlayerAchievements"
                      /\ last'.outcome = "ok" =>
                             LET entries == last'.calls[1].resp.playerstats.achievements
                                 M == {k \in DOMAIN entries : entries[k].apiname = achs[o].id}
                             IN  /\ last'.value = (M # {} /\ entries[Min(M)].achieved = 1)
                                 /\ achs'[o].cache["is_unlocked"] = last'.value ]_vars

C18_Witness ==
    /\ last.op = "is_unlocked" /\ last.computed /\ last.outcome = "ok"
    /\ achs[last.target].cache["is_achieved"] = TRUE
    /\ last.value = FALSE
    /\ \E k \in DOMAIN last.calls[1].resp.playerstats.achievements :
           /\ last.calls[1].resp.playerstats.achievements[k].apiname = achs[last.target].id
           /\ last.calls[1].resp.playerstats.achievements[k].achieved = 2

\* --------------------------------------------------------------------------
\* Properties of the cached properties of SteamApp (specification SpecApp)
\* --------------------------------------------------------------------------
AppProperties == {"_schema", "achievements", "name", "owner", "app_info"}

\* C7: once a cached property of SteamApp holds an entry, the entry never
\* changes, and a read of it computes nothing, issues no call and returns the
\* entry, which is the value the computing read returned; once the schema is
\* stored no read of achievements, name or _schema issues the schema call, and
\* a schema call that answered stores it.
C7_ComputedOnce ==
    [][ \A i \in DOMAIN apps :
          /\ \A p \in DOMAIN apps[i].cache :
                 /\ p \in DOMAIN apps'[i].cache
                 /\ apps'[i].cache[p] = apps[i].cache[p]
          /\ (last'.target = i /\ last'.op \in AppProperties) =>
                 /\ Cached(i, last'.op) =>
                        /\ last'.outcome = "ok" /\ ~last'.computed
                        /\ last'.calls = <<>>
                        /\ last'.value = apps[i].cache[last'.op]
                        /\ apps' = apps /\ achs' = achs
                 /\ (~Cached(i, last'.op) /\ last'.outcome = "ok") =>
                        /\ last'.computed
                        /\ last'.op \in DOMAIN apps'[i].cache
                        /\ apps'[i].cache[last'.op] = last'.value
                 /\ Cached(i, "_schema") => ~HasApi(last'.calls, "GetSchemaForGame")
                 /\ (\E k \in DOMAIN last'.calls :
                        /\ last'.calls[k].api = "GetSchemaForGame"
                        /\ ~Failed(last'.calls[k].resp))
                        => "_schema" \in DOMAIN apps'[i].cache ]_vars

C7_Witness ==
    /\ last.op = "achievements" /\ ~last.computed /\ last.calls = <<>>
    /\ Len(last.value) = 1
    /\ AppProperties \subseteq DOMAIN apps[last.target].cache

\* --------------------------------------------------------------------------
\* Properties of the store metadata (specification SpecStore)
\* --------------------------------------------------------------------------
StoreAnswer == last.calls[1].resp[str(apps[last.target].id)]
Answered == last.calls # <<>> /\ ~Failed(last.calls[1].resp)
NoStoreData == Answered /\ last.outcome = "ok" /\ ~StoreAnswer.success

\* C10: when the store answers success = false, app_info is None and is stored
\* as such, and every derived accessor returns None without raising, at the
\* read that fetched it and at every read after. (A read that raised shows no
\* response: app_info raises only when the call does, and a derived accessor
\* with a stored None never raises.)
C10_NoStoreDataIsAbsent ==
    /\ (last.op = "app_info" /\ NoStoreData)
           => /\ last.value = NoneObject
              /\ Cached(last.target, "app_info")
              /\ apps[last.target].cache["app_info"] = NoneObject
    /\ (last.op = "app_info" /\ Answered) => last.outcome = "ok"
    /\ (last.op \in DerivedFields /\ NoStoreData)
           => /\ last.value = None
              /\ Cached(last.target, "app_info")
              /\ apps[last.target].cache["app_info"] = NoneObject
    /\ (last.op \in DerivedFields /\ Answered) => Cached(last.target, "app_info")
    /\ (/\ last.op \in DerivedFields /\ Cached(last.target, "app_info")
        /\ apps[last.target].cache["app_info"] = NoneObject)
           => last.outcome = "ok" /\ last.value = None

C10_Witness ==
    /\ last.op = "release_date" /\ last.calls = <<>>
    /\ apps[last.target].cache["app_info"] = NoneObject
    /\ last.outcome = "ok" /\ last.value = None

\* C16: a read of app_info or of a derived accessor issues the store call only
\* when app_info is not stored, and then once; a call that answered, with
\* success true or false, stores app_info (None for false), and the entry never
\* changes; a derived accessor issues nothing else and stores nothing of its own.
C16_StoreCallAtMostOnce ==
    [][ last'.op \in DerivedFields \cup {"app_info"} =>
          LET i == last'.target
          IN  /\ Cached(i, "app_info") =>
                     /\ last'.calls = <<>>
                     /\ apps' = apps
              /\ ~Cached(i, "app_info") =>
                     /\ Len(last'.calls) = 1
                     /\ last'.calls[1].api = "appdetails"
                     /\ ~Failed(last'.calls[1].resp) => "app_info" \in DOMAIN apps'[i].cache
                     /\ last'.outcome = "ok" =>
                            apps'[i].cache["app_info"] =
                                (IF last'.calls[1].resp[str(apps[i].id)].success
                                 THEN last'.calls[1].resp[str(apps[i].id)].data
                                 ELSE NoneObject)
              /\ last'.op \in DerivedFields =>
                     DOMAIN apps'[i].cache \ {"app_info"} = DOMAIN apps[i].cache \ {"app_info"}
              /\ achs' = achs ]_vars

C16_Witness ==
    /\ last.op = "type" /\ last.calls = <<>> /\ last.outcome = "ok"
    /\ last.value = "data"
    /\ Truthy(apps[last.target].cache["app_info"])

\* --------------------------------------------------------------------------
\* Properties of the identity keys and of achievements constructed by a caller
\* (specification SpecDirect)
\* --------------------------------------------------------------------------
\* C11: the key of a SteamApp differs from the key of every SteamAchievement,
\* whatever its api_name and linked appid, and a __hash__ just computed on one
\* kind of object gives a key no object of the other kind has.
C11_KeysNeverCoincide ==
    /\ \A i \in DOMAIN apps, o \in DOMAIN achs :
           SteamApp__hash__(apps[i]) # SteamAchievement__hash__(achs[o])
    /\ last.op = "SteamAchievement.__hash__"
           => \A i \in DOMAIN apps : last.value # SteamApp__hash__(apps[i])
    /\ last.op = "SteamApp.__hash__"
           => \A o \in DOMAIN achs : last.value # SteamAchievement__hash__(achs[o])

\* C12: a read of name, achievements, is_hidden or is_unlocked (with a user
\* bound) whose remote calls all answered returns, whichever optional sections
\* the responses lack; it never ends with an error.
C12_MissingFieldsNeverRaise ==
    (/\ last.op \in {"name", "achievements", "is_hidden", "is_unlocked"}
     /\ ~AnyFailed(last.calls)
     /\ last.op = "is_unlocked" => achs[last.target].userid # None)
        => last.outcome = "ok"

\* --------------------------------------------------------------------------
\* Properties of construction (specification SpecInst)
\* --------------------------------------------------------------------------
\* C14: from_api_response issues no remote call; on a fragment without appid it
\* raises ValueError and no instance is created; on a fragment with appid it
\* returns a new SteamApp whose id is that appid and whose user id (and owner)
\* is associated_userid, and the instances there were are left as they were.
C14_FragmentNeedsAppId ==
    [][ last'.op = "from_api_response" =>
          /\ last'.calls = <<>>
          /\ achs' = achs
          /\ IF Has(last'.args[1], "appid")
             THEN /\ last'.outcome = "ok"
                  /\ Len(apps') = Len(apps) + 1
                  /\ \A i \in DOMAIN apps : apps'[i] = apps[i]
                  /\ last'.target = Len(apps')
                  /\ last'.value = apps'[Len(apps')]
                  /\ apps'[Len(apps')].id = last'.args[1].appid
                  /\ apps'[Len(apps')].userid = last'.args[2]
                  /\ apps'[Len(apps')].owner = last'.args[2]
             ELSE /\ last'.outcome = "ValueError"
                  /\ apps' = apps ]_vars

C14_Witness ==
    /\ last.op = "from_api_response" /\ last.outcome = "ValueError"
    /\ Has(last.args[1], "name") /\ last.args[2] = "u1"
    /\ Len(apps) = 2 /\ apps[2].id = 200 /\ apps[2].userid = "u1"

\* --------------------------------------------------------------------------
\* Properties of several instances for one id (specification SpecPair)
\* --------------------------------------------------------------------------
\* C15: a read, a failed read or a construction changes no instance other than
\* the one read, and no achievement already handed out; the first read of
\* _schema, achievements or app_info on an instance computes and issues its own
\* calls, whatever the other instances hold.
C15_CachesArePerInstance ==
    [][ /\ \A i \in DOMAIN apps :
               (last'.target # i \/ last'.op \notin AppProperties) => apps'[i] = apps[i]
        /\ \A o \in DOMAIN achs : achs'[o] = achs[o]
        /\ (last'.op \in {"_schema", "achievements", "app_info"}
            /\ ~Cached(last'.target, last'.op)) =>
               /\ last'.computed
               /\ last'.calls # <<>>
               /\ last'.op = "_schema" => last'.calls[1].api = "GetSchemaForGame"
               /\ last'.op = "app_info" => last'.calls[1].api = "appdetails"
               /\ last'.op = "achievements" =>
                      /\ last'.calls[1].api = "GetGlobalAchievementPercentagesForApp"
                      /\ (last'.outcome = "ok" /\ ~Cached(last'.target, "_schema"))
                             => HasApi(last'.calls, "GetSchemaForGame") ]_vars

C15_Witness ==
    /\ Len(apps) = 2 /\ apps[1].id = apps[2].id
    /\ Cached(1, "_schema") /\ Cached(1, "achievements") /\ Cached(1, "app_info")
    /\ last.op = "achievements" /\ last.target = 2 /\ last.computed
    /\ last.outcome = "ok" /\ HasApi(last.calls, "GetSchemaForGame")
    /\ apps[1].cache["_schema"] # apps[2].cache["_schema"]
    /\ ~Cached(2, "app_info")

\* C19: a SteamApp constructed with a name, directly or from a fragment that
\* has one, starts with that name stored and nothing else, and one constructed
\* without starts with an empty cache; a stored name never changes, and a read
\* of it returns it without a call; the first read of name on an instance
\* without one issues the schema call (unless the schema is already stored) and
\* returns game.gameName if the schema has it and "<Unknown>" otherwise.
C19_SuppliedNameIsStored ==
    [][ /\ last'.op = "SteamApp" =>
               apps'[last'.target].cache =
                   (IF last'.args[2] # None THEN [p \in {"name"} |-> last'.args[2]]
                    ELSE <<>>)
        /\ (last'.op = "from_api_response" /\ last'.outcome = "ok") =>
               apps'[last'.target].cache =
                   (IF Has(last'.args[1], "name")
                    THEN [p \in {"name"} |-> last'.args[1].name]
                    ELSE <<>>)
        /\ \A i \in DOMAIN apps :
               Cached(i, "name") => /\ "name" \in DOMAIN apps'[i].cache
                                    /\ apps'[i].cache["name"] = apps[i].cache["name"]
        /\ last'.op = "name" =>
               LET i == last'.target
               IN  IF Cached(i, "name")
                   THEN /\ last'.outcome = "ok"
                        /\ last'.value = apps[i].cache["name"]
                        /\ last'.calls = <<>>
                        /\ apps' = apps
                   ELSE /\ IF Cached(i, "_schema") THEN last'.calls = <<>>
                           ELSE /\ Len(last'.calls) = 1
                                /\ last'.calls[1].api = "GetSchemaForGame"
                        /\ last'.outcome = "ok" =>
                               /\ ~Cached(i, "_schema") =>
                                      apps'[i].cache["_schema"] = last'.calls[1].resp
                               /\ last'.value =
                                      (IF Has(apps'[i].cache["_schema"].game, "gameName")
                                       THEN apps'[i].cache["_schema"].game.gameName
                                       ELSE "<Unknown>")
                               /\ apps'[i].cache["name"] = last'.value ]_vars

C19_Witness ==
    /\ Len(apps) = 2
    /\ last.op = "name" /\ last.target = 2 /\ last.calls = <<>> /\ ~last.computed
    /\ last.value = "Half-Life"
    /\ DOMAIN apps[2].cache = {"name"}
    /\ Cached(1, "name") /\ apps[1].cache["name"] = "<Unknown>"

====
